---- MODULE Spec2Model ----
(***************************************************************************)
(* Model of data/modules/goja-usage.ts: the InitModule entrypoint, the     *)
(* "match_create" RPC handler it registers, and the part of the host       *)
(* scripting surface (Initializer, Logger, Nakama) the two of them touch.  *)
(*                                                                         *)
(* The module code runs one statement per step.  A call into the host is   *)
(* two steps: the call (the module code is then suspended inside the host) *)
(* and the host's return or throw.  InitModule has no try/catch, so an     *)
(* exception thrown by a host call ends the activation that made the call. *)
(***************************************************************************)
EXTENDS Naturals, Sequences, FiniteSets

\* ------------------------------------------------------------------ bounds

\* Number of RPC invocations the host dispatches after start up.
MaxInv == 2

Inv == 1..MaxInv

\* ------------------------------------------------- values the host passes

\* Payloads a client may send: "usually an escaped JSON object", but the
\* empty string and text that is not JSON reach the handler just the same.
Payloads == {"", "not json", "{\"id\":1}"}

\* The host runs module code in one of its JS runtimes, and hands an
\* activation the logger object and the Nakama API object of that runtime.
Runtimes == {[logger |-> "loggerA", nk |-> "nkA"], [logger |-> "loggerB", nk |-> "nkB"]}

Loggers == {r.logger : r \in Runtimes}

Nks == {r.nk : r \in Runtimes}

\* Contexts: of the fifteen ContextKey fields, the two that tell an RPC
\* call of one user from a call of another.
Contexts == {[execution_mode |-> "rpc", user_id |-> u] : u \in {"user1", "user2"}}

InitContext == [execution_mode |-> "run_once", user_id |-> ""]

\* ---------------------------------------------------------- JS built-ins

\* JSON string escaping (ECMA-262 QuoteJSONString) of a JS string, given as
\* the sequence of its characters, without the enclosing quotes.
RECURSIVE JSONEscape(_)
JSONEscape(cs) ==
    IF cs = <<>> THEN ""
    ELSE (CASE Head(cs) = "\"" -> "\\\""
            [] Head(cs) = "\\" -> "\\\\"
            [] OTHER -> Head(cs)) \o JSONEscape(Tail(cs))

JSONQuote(cs) == "\"" \o JSONEscape(cs) \o "\""

\* JSON.stringify of an object with string-valued properties, given as the
\* sequence of its <<key, value>> pairs in property order: no white space,
\* members separated by commas.
RECURSIVE JSONMembers(_)
JSONMembers(props) ==
    IF props = <<>> THEN ""
    ELSE JSONQuote(Head(props)[1]) \o ":" \o JSONQuote(Head(props)[2])
         \o (IF Tail(props) = <<>> THEN "" ELSE ",")
         \o JSONMembers(Tail(props))

JSONStringify(props) == "{" \o JSONMembers(props) \o "}"

\* The object literal { hello: "world!" }.
HelloObject == << << <<"h","e","l","l","o">>, <<"w","o","r","l","d","!">> >> >>

\* -------------------------------------------------------------- state

VARIABLES
    initPc,           \* position of the InitModule activation
    initLogger,       \* the logger object passed to InitModule
    initCall,         \* the host call InitModule is suspended in, or NoCall
    initResult,       \* what InitModule returned ("none" until it returns)
    rpcs,             \* host: registered RPC functions, records [id, func]
    hooks,            \* host: registered hooks, records [kind, id, func]
    initializerCalls, \* every call made on the initializer, in order
    nkCalls,          \* every call made on a Nakama API object, in order
    matches,          \* host: the matches created through nk.matchCreate
    logs,             \* host: per logger object, the entries logged on it
    nextInv,          \* host: number of the next RPC invocation
    inv               \* the RPC invocations:
                      \*   [pc, ctx, logger, nk, payload, call, result]

vars == <<initPc, initLogger, initCall, initResult, rpcs, hooks, initializerCalls,
          nkCalls, matches, logs, nextInv, inv>>

\* Host state an RPC can reach through nk or the initializer.
hostState == <<rpcs, hooks, matches, nkCalls, initializerCalls>>

\* The arrow function passed to registerRpc at line 1184.
MatchCreateFn == "InitModule.match_create"

\* A call into the host: the object and method called, the arguments, and
\* the statement the caller resumes at when the call returns.
HostCall(target, method, args, ret) ==
    [target |-> target, method |-> method, args |-> args, ret |-> ret]

NoCall == HostCall("", "", <<>>, "")

Idle == [pc |-> "idle", ctx |-> InitContext, logger |-> "", nk |-> "",
         payload |-> "", call |-> NoCall, result |-> "none"]

\* Activation number of InitModule in log entries (invocations are 1..MaxInv).
InitActivation == 0

Init ==
    /\ initPc = "L1184"
    /\ initLogger \in Loggers
    /\ initCall = NoCall
    /\ initResult = "none"
    /\ rpcs = {}
    /\ hooks = {}
    /\ initializerCalls = <<>>
    /\ nkCalls = <<>>
    /\ matches = {}
    /\ logs = [l \in Loggers |-> <<>>]
    /\ nextInv = 1
    /\ inv = [i \in Inv |-> Idle]

\* ------------------------------------------------------------ host side

\* Logger.debug(format, ...args): one entry at DEBUG level on that logger.
\* `by` is the activation that made the call.
DebugEntry(format, args, by) ==
    [level |-> "DEBUG", format |-> format, args |-> args, by |-> by]

LoggerDebug(logger, format, args, by) ==
    logs' = [logs EXCEPT ![logger] = Append(@, DebugEntry(format, args, by))]

\* Initializer.registerRpc(id, func): the function is callable by that id.
RegisterRpc(id, func) ==
    rpcs' = {r \in rpcs : r.id # id} \cup {[id |-> id, func |-> func]}

\* Initializer.registerReqBefore / registerReqAfter / registerRtBefore /
\* registerRtAfter (id, func): the hook runs around the call of that id.
RegisterHook(kind, id, func) ==
    hooks' = hooks \cup {[kind |-> kind, id |-> id, func |-> func]}

\* Nakama.matchCreate(module, params): a new match running that module.
MatchCreate(module) ==
    /\ matches' = matches \cup {[id |-> Cardinality(matches) + 1, module |-> module]}
    /\ nkCalls' = Append(nkCalls, [method |-> "matchCreate", module |-> module])

\* -------------------------------------------------------------- InitModule

\* Variant with lines 1184 and 1189 in the other order: the message is
\* logged first and the RPC registered after it.
InitModule_registerRpc_afterLog ==
    /\ initPc \in {"L1184", "L1184_late"}
    /\ IF initPc = "L1184"
       THEN /\ initCall' = HostCall(initLogger, "debug",
                                    <<"Backend engine loaded.", <<>> >>, "L1184_late")
            /\ UNCHANGED initializerCalls
       ELSE /\ initCall' = HostCall("initializer", "registerRpc",
                                    <<"match_create", MatchCreateFn>>, "L1190")
            /\ initializerCalls' = Append(initializerCalls,
                                          [method |-> "registerRpc", id |-> "match_create"])
    /\ initPc' = "in_host"
    /\ UNCHANGED <<initLogger, initResult, rpcs, hooks, nkCalls, matches, logs,
                   nextInv, inv>>

\* Variant of line 1184 that also hooks the RPC:
\* initializer.registerReqBefore("match_create", ...) next to registerRpc.
InitModule_registerRpc_andHook ==
    /\ initPc = "L1184"
    /\ initCall' = HostCall("initializer", "registerRpc",
                            <<"match_create", MatchCreateFn>>, "L1189")
    /\ initializerCalls' = initializerCalls
                            \o << [method |-> "registerReqBefore", id |-> "match_create"],
                                  [method |-> "registerRpc", id |-> "match_create"] >>
    /\ RegisterHook("ReqBefore", "match_create", MatchCreateFn)
    /\ initPc' = "in_host"
    /\ UNCHANGED <<initLogger, initResult, rpcs, nkCalls, matches, logs,
                   nextInv, inv>>

\* line 1184: initializer.registerRpc("match_create", (ctx2, logger2, nk2, payload) => ...)
InitModule_registerRpc ==
    /\ initPc = "L1184"
    /\ initCall' = HostCall("initializer", "registerRpc",
                            <<"match_create", MatchCreateFn>>, "L1189")
    /\ initializerCalls' = Append(initializerCalls,
                                  [method |-> "registerRpc", id |-> "match_create"])
    /\ initPc' = "in_host"
    /\ UNCHANGED <<initLogger, initResult, rpcs, hooks, nkCalls, matches, logs,
                   nextInv, inv>>

\* The host registers the function and returns to the caller.
Host_registerRpc_return ==
    /\ initPc = "in_host"
    /\ initCall.method = "registerRpc"
    /\ RegisterRpc(initCall.args[1], initCall.args[2])
    /\ initPc' = initCall.ret
    /\ initCall' = NoCall
    /\ UNCHANGED <<initLogger, initResult, hooks, initializerCalls, nkCalls,
                   matches, logs, nextInv, inv>>

\* The host rejects the registration: the exception leaves InitModule,
\* which has no handler for it.
Host_registerRpc_throw ==
    /\ initPc = "in_host"
    /\ initCall.method = "registerRpc"
    /\ initPc' = "threw"
    /\ UNCHANGED <<initLogger, initCall, initResult, rpcs, hooks, initializerCalls,
                   nkCalls, matches, logs, nextInv, inv>>

\* Variant of line 1189 that logs the message twice.
InitModule_debug_twice ==
    /\ initPc \in {"L1189", "L1189_again"}
    /\ initCall' = HostCall(initLogger, "debug", <<"Backend engine loaded.", <<>> >>,
                            IF initPc = "L1189" THEN "L1189_again" ELSE "L1190")
    /\ initPc' = "in_host"
    /\ UNCHANGED <<initLogger, initResult, rpcs, hooks, initializerCalls, nkCalls,
                   matches, logs, nextInv, inv>>

\* line 1189: logger.debug("Backend engine loaded.")
InitModule_debug ==
    /\ initPc = "L1189"
    /\ initCall' = HostCall(initLogger, "debug", <<"Backend engine loaded.", <<>> >>, "L1190")
    /\ initPc' = "in_host"
    /\ UNCHANGED <<initLogger, initResult, rpcs, hooks, initializerCalls, nkCalls,
                   matches, logs, nextInv, inv>>

\* The host writes the entry and returns to the caller.
Host_initDebug_return ==
    /\ initPc = "in_host"
    /\ initCall.method = "debug"
    /\ LoggerDebug(initCall.target, initCall.args[1], initCall.args[2], InitActivation)
    /\ initPc' = initCall.ret
    /\ initCall' = NoCall
    /\ UNCHANGED <<initLogger, initResult, rpcs, hooks, initializerCalls, nkCalls,
                   matches, nextInv, inv>>

\* Variant of line 1190 that never returns: while (true) {}
InitModule_return_spin ==
    /\ initPc = "L1190"
    /\ UNCHANGED vars

\* Variant of line 1190 that reports an error: return new Error(...)
InitModule_return_error ==
    /\ initPc = "L1190"
    /\ initResult' = "Error"
    /\ initPc' = "done"
    /\ UNCHANGED <<initLogger, initCall, rpcs, hooks, initializerCalls, nkCalls,
                   matches, logs, nextInv, inv>>

\* line 1190: return null
InitModule_return ==
    /\ initPc = "L1190"
    /\ initResult' = "null"
    /\ initPc' = "done"
    /\ UNCHANGED <<initLogger, initCall, rpcs, hooks, initializerCalls, nkCalls,
                   matches, logs, nextInv, inv>>

\* ------------------------------------------------ the match_create handler

\* The host calls the function registered under id with fresh arguments.
\* InitModule blocks the start up sequence, so no RPC is served before it
\* has returned.
Host_invokeRpc(id, ctx, logger, nk, payload) ==
    /\ initPc = "done"
    /\ nextInv <= MaxInv
    /\ [id |-> id, func |-> MatchCreateFn] \in rpcs
    /\ inv' = [inv EXCEPT ![nextInv] =
                 [pc |-> "L1185", ctx |-> ctx, logger |-> logger, nk |-> nk,
                  payload |-> payload, call |-> NoCall, result |-> "none"]]
    /\ nextInv' = nextInv + 1
    /\ UNCHANGED <<initPc, initLogger, initCall, initResult, rpcs, hooks,
                   initializerCalls, nkCalls, matches, logs>>

\* Variant of line 1185 that uses the logger of the enclosing InitModule
\* instead of its own parameter: logger.debug("payload: %q", payload)
Handler_debug_capturedLogger(i) ==
    /\ inv[i].pc = "L1185"
    /\ inv' = [inv EXCEPT ![i].pc = "in_host",
                          ![i].call = HostCall(initLogger, "debug",
                                               <<"payload: %q", <<inv[i].payload>> >>,
                                               "L1187")]
    /\ UNCHANGED <<initPc, initLogger, initCall, initResult, rpcs, hooks,
                   initializerCalls, nkCalls, matches, logs, nextInv>>

\* Variant of line 1185 that leaves the argument out: logger2.debug("payload: %q")
Handler_debug_noArg(i) ==
    /\ inv[i].pc = "L1185"
    /\ inv' = [inv EXCEPT ![i].pc = "in_host",
                          ![i].call = HostCall(inv[i].logger, "debug",
                                               <<"payload: %q", <<>> >>, "L1187")]
    /\ UNCHANGED <<initPc, initLogger, initCall, initResult, rpcs, hooks,
                   initializerCalls, nkCalls, matches, logs, nextInv>>

\* line 1185: logger2.debug("payload: %q", payload)
Handler_debug(i) ==
    /\ inv[i].pc = "L1185"
    /\ inv' = [inv EXCEPT ![i].pc = "in_host",
                          ![i].call = HostCall(inv[i].logger, "debug",
                                               <<"payload: %q", <<inv[i].payload>> >>,
                                               "L1187")]
    /\ UNCHANGED <<initPc, initLogger, initCall, initResult, rpcs, hooks,
                   initializerCalls, nkCalls, matches, logs, nextInv>>

\* The host writes the entry and returns to the caller.
Host_handlerDebug_return(i) ==
    /\ inv[i].pc = "in_host"
    /\ inv[i].call.method = "debug"
    /\ LoggerDebug(inv[i].call.target, inv[i].call.args[1], inv[i].call.args[2], i)
    /\ inv' = [inv EXCEPT ![i].pc = inv[i].call.ret, ![i].call = NoCall]
    /\ UNCHANGED <<initPc, initLogger, initCall, initResult, rpcs, hooks,
                   initializerCalls, nkCalls, matches, nextInv>>

\* Variant of line 1187 that echoes its input: return payload
Handler_return_echo(i) ==
    /\ inv[i].pc = "L1187"
    /\ inv' = [inv EXCEPT ![i].pc = "returned", ![i].result = inv[i].payload]
    /\ UNCHANGED <<initPc, initLogger, initCall, initResult, rpcs, hooks,
                   initializerCalls, nkCalls, matches, logs, nextInv>>

\* Variant of line 1187 that does what the RPC's id says:
\* nk2.matchCreate("match", {}) before the return.
Handler_return_createsMatch(i) ==
    /\ inv[i].pc = "L1187"
    /\ MatchCreate("match")
    /\ inv' = [inv EXCEPT ![i].pc = "returned",
                          ![i].result = JSONStringify(HelloObject)]
    /\ UNCHANGED <<initPc, initLogger, initCall, initResult, rpcs, hooks,
                   initializerCalls, logs, nextInv>>

\* Variant of line 1187 whose result depends on what was logged before it:
\* the first call on a logger answers differently from the later ones.
Handler_return_history(i) ==
    /\ inv[i].pc = "L1187"
    /\ inv' = [inv EXCEPT ![i].pc = "returned",
                          ![i].result = IF Len(logs[inv[i].logger]) <= 1
                                        THEN JSONStringify(<<>>)
                                        ELSE JSONStringify(HelloObject)]
    /\ UNCHANGED <<initPc, initLogger, initCall, initResult, rpcs, hooks,
                   initializerCalls, nkCalls, matches, logs, nextInv>>

\* Variant of line 1187 that parses its input first:
\* JSON.parse(payload) throws a SyntaxError on text that is not JSON.
Handler_return_parse(i) ==
    /\ inv[i].pc = "L1187"
    /\ inv' = IF inv[i].payload = "{\"id\":1}"
              THEN [inv EXCEPT ![i].pc = "returned",
                               ![i].result = JSONStringify(HelloObject)]
              ELSE [inv EXCEPT ![i].pc = "threw"]
    /\ UNCHANGED <<initPc, initLogger, initCall, initResult, rpcs, hooks,
                   initializerCalls, nkCalls, matches, logs, nextInv>>

\* line 1187: return JSON.stringify({ hello: "world!" })
Handler_return(i) ==
    /\ inv[i].pc = "L1187"
    /\ inv' = [inv EXCEPT ![i].pc = "returned",
                          ![i].result = JSONStringify(HelloObject)]
    /\ UNCHANGED <<initPc, initLogger, initCall, initResult, rpcs, hooks,
                   initializerCalls, nkCalls, matches, logs, nextInv>>

\* ------------------------------------------------------------------ system

Next ==
    \/ InitModule_registerRpc
    \/ Host_registerRpc_return
    \/ Host_registerRpc_throw
    \/ InitModule_debug
    \/ Host_initDebug_return
    \/ InitModule_return
    \/ \E ctx \in Contexts, rt \in Runtimes, payload \in Payloads :
          Host_invokeRpc("match_create", ctx, rt.logger, rt.nk, payload)
    \/ \E i \in Inv : Handler_debug(i)
    \/ \E i \in Inv : Host_handlerDebug_return(i)
    \/ \E i \in Inv : Handler_return(i)

Spec == Init /\ [][Next]_vars

\* The module code is run to its next host call or return, and a host call
\* that has been made returns or throws.
Fairness ==
    /\ WF_vars(InitModule_registerRpc)
    /\ WF_vars(Host_registerRpc_return \/ Host_registerRpc_throw)
    /\ WF_vars(InitModule_debug)
    /\ WF_vars(Host_initDebug_return)
    /\ WF_vars(InitModule_return)

FairSpec == Spec /\ Fairness

\* One step of the handler's activation i: its own code or the return of
\* the host call it is suspended in.
HandlerStep(i) ==
    \/ Handler_debug(i)
    \/ Host_handlerDebug_return(i)
    \/ Handler_return(i)

TypeOK ==
    /\ initPc \in {"L1184", "in_host", "L1189", "L1190", "done", "threw"}
    /\ initLogger \in Loggers
    /\ initResult \in {"none", "null", "Error"}
    /\ nextInv \in 1..(MaxInv + 1)
    /\ \A i \in Inv : inv[i].pc \in {"idle", "L1185", "in_host", "L1187", "returned", "threw"}

\* ------------------------------------------------------------------ claims

\* The registered RPC function, as the host finds it under its id.
Registered(id) == [id |-> id, func |-> MatchCreateFn] \in rpcs

\* C1: every invocation of the RPC registered under "match_create" that
\* has returned, whatever its payload (the empty string and text that is
\* not JSON included), returned exactly the string {"hello":"world!"}.
C1_FixedOutput ==
    \A i \in Inv :
        inv[i].pc = "returned" => inv[i].result = "{\"hello\":\"world!\"}"

\* Two invocations have returned, one called with the empty string and one
\* with text that is not JSON.
C1_Witness ==
    /\ Registered("match_create")
    /\ \E i, j \in Inv :
          /\ inv[i].pc = "returned" /\ inv[i].payload = ""
          /\ inv[j].pc = "returned" /\ inv[j].payload = "not json"

\* C2: no invocation of "match_create" ends in an error outcome: none has
\* thrown, one that has not returned yet can take its next step, and one
\* that has returned has a return value.
C2_NeverThrows ==
    \A i \in Inv :
        /\ inv[i].pc # "threw"
        /\ inv[i].pc \notin {"idle", "returned"} => ENABLED HandlerStep(i)
        /\ inv[i].pc = "returned" => inv[i].result # "none"

\* An invocation with a payload that is not JSON has run to its return.
C2_Witness ==
    \E i \in Inv : inv[i].pc = "returned" /\ inv[i].payload \in {"", "not json"}

\* C3: one execution of InitModule calls registerRpc once, with the id
\* "match_create", and calls no other method of the initializer; when it
\* has returned exactly that one RPC is registered and no hook is.
C3_OneRpcNoHooks ==
    /\ Len(initializerCalls) <= 1
    /\ \A k \in DOMAIN initializerCalls :
          initializerCalls[k] = [method |-> "registerRpc", id |-> "match_create"]
    /\ hooks = {}
    /\ rpcs \subseteq {[id |-> "match_create", func |-> MatchCreateFn]}
    /\ initPc \in {"L1189", "L1190", "done", "threw"} => Len(initializerCalls) = 1
    /\ initPc = "done" => rpcs = {[id |-> "match_create", func |-> MatchCreateFn]}

\* InitModule has returned, and RPCs have been served since.
C3_Witness ==
    /\ initPc = "done"
    /\ Len(initializerCalls) = 1
    /\ \E i \in Inv : inv[i].pc = "returned"

\* The log entries written for activation a: <<logger, position>> pairs.
EntriesBy(a) ==
    UNION {{<<l, k>> : k \in {n \in DOMAIN logs[l] : logs[l][n].by = a}} : l \in Loggers}

AllEntries == UNION {{logs[l][k] : k \in DOMAIN logs[l]} : l \in Loggers}

\* C4: one execution of InitModule writes exactly one log entry, the
\* message "Backend engine loaded." with no arguments at DEBUG level on the
\* logger passed to InitModule; the handler is not invoked while InitModule
\* runs, so until the host dispatches an RPC no "payload: ..." entry exists.
C4_OneStartupMessage ==
    /\ initPc \in {"L1190", "done"} =>
          /\ Cardinality(EntriesBy(InitActivation)) = 1
          /\ \E k \in DOMAIN logs[initLogger] :
                logs[initLogger][k] =
                    [level |-> "DEBUG", format |-> "Backend engine loaded.",
                     args |-> <<>>, by |-> InitActivation]
    /\ initPc \notin {"L1190", "done"} => EntriesBy(InitActivation) = {}
    /\ initPc # "done" => \A i \in Inv : inv[i].pc = "idle"
    /\ nextInv = 1 => \A e \in AllEntries : e.format # "payload: %q"

\* InitModule has returned and no RPC has been dispatched yet.
C4_Witness ==
    /\ initPc = "done"
    /\ nextInv = 1
    /\ Len(logs[initLogger]) = 1

\* C5: every invocation of the handler logs its payload exactly once, at
\* DEBUG level with the format "payload: %q" and the payload as the single
\* argument, and has done so before it returns; before line 1185 has run
\* it has logged nothing.
C5_LogsPayloadOnce ==
    \A i \in Inv :
        /\ inv[i].pc \in {"idle", "L1185", "in_host"} => EntriesBy(i) = {}
        /\ inv[i].pc \in {"L1187", "returned"} =>
              /\ Cardinality(EntriesBy(i)) = 1
              /\ \A e \in EntriesBy(i) :
                    logs[e[1]][e[2]] =
                        [level |-> "DEBUG", format |-> "payload: %q",
                         args |-> <<inv[i].payload>>, by |-> i]

\* Two invocations with different payloads have logged and returned.
C5_Witness ==
    \E i, j \in Inv :
        /\ inv[i].pc = "returned" /\ inv[j].pc = "returned"
        /\ inv[i].payload # inv[j].payload
        /\ EntriesBy(i) # {} /\ EntriesBy(j) # {}

\* A step of an invocation that is under way.
Running(i) == inv[i].pc \notin {"idle", "returned", "threw"} /\ inv'[i] # inv[i]

\* C6: the handler is stateless and branch-free: any two invocations that
\* have returned, whatever their ctx, nk, payload, logger and whatever ran
\* before them, returned the same value; and a step of an invocation
\* changes nothing of any other invocation nor of its own arguments, so no
\* value is carried from one invocation to another.
C6_Stateless ==
    /\ [](\A i, j \in Inv :
            inv[i].pc = "returned" /\ inv[j].pc = "returned"
                => inv[i].result = inv[j].result)
    /\ [][\A i \in Inv : Running(i) =>
            /\ \A j \in Inv \ {i} : inv'[j] = inv[j]
            /\ inv'[i].ctx = inv[i].ctx /\ inv'[i].nk = inv[i].nk
            /\ inv'[i].logger = inv[i].logger /\ inv'[i].payload = inv[i].payload
            /\ UNCHANGED <<initPc, initLogger, initCall, initResult>>]_vars

\* Two invocations that differ in ctx, nk, logger and payload have returned.
C6_Witness ==
    /\ inv[1].pc = "returned" /\ inv[2].pc = "returned"
    /\ inv[1].ctx # inv[2].ctx /\ inv[1].nk # inv[2].nk
    /\ inv[1].logger # inv[2].logger /\ inv[1].payload # inv[2].payload

\* The host calls InitModule has made: those on the initializer, and the
\* completed ones on a logger (InitModule calls no method of nk).
InitHostCalls == Len(initializerCalls) + Cardinality(EntriesBy(InitActivation))

\* C7: InitModule never makes more than two host calls, and provided its
\* host calls return (registerRpc does not throw, and a call that was made
\* is answered) it returns, having made exactly the two calls registerRpc
\* and logger.debug.
C7_InitTerminates ==
    /\ [](InitHostCalls <= 2)
    /\ ([](initPc # "threw") =>
            <>(initPc = "done" /\ InitHostCalls = 2 /\ initCall = NoCall))

\* InitModule has returned after its two host calls.
C7_Witness ==
    /\ initPc = "done"
    /\ Len(initializerCalls) = 1
    /\ Cardinality(EntriesBy(InitActivation)) = 1

\* The message of line 1189 is in some log.
LoadedLogged == \E e \in AllEntries : e.format = "Backend engine loaded."

C9_ReturnsNull ==
    /\ initResult \in {"none", "null"}
    /\ initPc = "done" <=> initResult = "null"
    /\ initPc = "threw" => initCall # NoCall /\ initCall.target \in {"initializer"} \cup Loggers

\* InitModule has returned null and RPCs are being served.
C9_Witness ==
    /\ initPc = "done"
    /\ initResult = "null"
    /\ nextInv > 1

\* C10: a step of an invocation of the handler calls no method of nk and
\* none of the initializer and changes no host state (registered RPCs and
\* hooks, matches, the calls recorded on nk and on the initializer); the
\* only thing it may change outside its own activation is one logger, by
\* one entry of its own, and an invocation that has returned has written
\* exactly one entry.
C10_OnlyEffectIsOneLogEntry ==
    /\ [][\A i \in Inv : Running(i) =>
            /\ UNCHANGED hostState
            /\ \/ UNCHANGED logs
               \/ \E l \in Loggers, e \in {x \in AllEntries' : x.by = i} :
                     logs' = [logs EXCEPT ![l] = Append(@, e)]]_vars
    /\ [](\A i \in Inv : inv[i].pc = "returned" => Cardinality(EntriesBy(i)) = 1)

\* An invocation has run to its return, with the RPC still registered and
\* no match created.
C10_Witness ==
    /\ \E i \in Inv : inv[i].pc = "returned" /\ Cardinality(EntriesBy(i)) = 1
    /\ Registered("match_create")
    /\ matches = {}

\* C11: however the invocations of the handler are interleaved, each one
\* logs on the logger that was passed to it (its pending logger.debug call
\* is addressed to that logger and its entry is in that logger's log, also
\* when InitModule was given another logger), the entry carries its own
\* payload, every "payload: %q" entry on a logger was written by an
\* invocation that was passed that logger, and each invocation that has
\* returned returned {"hello":"world!"}.
C11_OwnLoggerOwnPayload ==
    /\ \A i \in Inv :
          /\ inv[i].call.method = "debug" => inv[i].call.target = inv[i].logger
          /\ \A e \in EntriesBy(i) :
                /\ e[1] = inv[i].logger
                /\ logs[e[1]][e[2]].args = <<inv[i].payload>>
          /\ inv[i].pc \in {"L1187", "returned"} =>
                \E k \in DOMAIN logs[inv[i].logger] :
                    logs[inv[i].logger][k] =
                        DebugEntry("payload: %q", <<inv[i].payload>>, i)
          /\ inv[i].pc = "returned" => inv[i].result = JSONStringify(HelloObject)
    /\ \A l \in Loggers : \A k \in DOMAIN logs[l] :
          logs[l][k].format = "payload: %q" =>
              /\ logs[l][k].by \in Inv
              /\ inv[logs[l][k].by].logger = l

\* Two invocations with different payloads and different loggers overlap:
\* the second, whose logger is not the one InitModule was given, has
\* logged and returned while the first is still inside its logger.debug
\* call.
C11_Witness ==
    /\ inv[1].pc = "in_host"
    /\ inv[2].pc = "returned"
    /\ inv[2].logger # initLogger
    /\ inv[1].logger # inv[2].logger
    /\ inv[1].payload # inv[2].payload
    /\ EntriesBy(2) # {}
====
